---- MODULE Spec2Model ----
(***************************************************************************)
(* NovaInvoice (src/main.py): the SQLite store with its four tables, the   *)
(* field validators, the per-call-commit gateway, the partner / product /  *)
(* invoice / invoice-item handlers and the CSV import / export pipeline.   *)
(*                                                                         *)
(* Text is modelled as a sequence of one-character strings, so that strip, *)
(* the e-mail pattern, number parsing and CSV cell conversion are computed *)
(* character by character as the code computes them.  REAL values are      *)
(* modelled as exact decimals with one fractional digit, stored as an      *)
(* integer number of tenths (2.5 is 25).                                   *)
(***************************************************************************)
EXTENDS Integers, Sequences, FiniteSets, TLC

VARIABLES partners, products, invoices, items, seq, last, fresh

vars == <<partners, products, invoices, items, seq, last, fresh>>

(***************************************************************************)
(* Bounds of the model.                                                    *)
(***************************************************************************)
MaxPartners == 1
MaxProducts == 1
MaxInvoices == 2
MaxItems == 2
MaxCatalog == 2
MaxRows == 2
MaxPartnerRows == 5
MaxImported == 5
MaxEmailLen == 5

(***************************************************************************)
(* Text helpers.                                                           *)
(***************************************************************************)
Digits == {"0", "1", "2", "3", "4", "5", "6", "7", "8", "9"}

Range(s) == {s[i] : i \in DOMAIN s}

DigitVal(c) ==
  CASE c = "0" -> 0 [] c = "1" -> 1 [] c = "2" -> 2 [] c = "3" -> 3
    [] c = "4" -> 4 [] c = "5" -> 5 [] c = "6" -> 6 [] c = "7" -> 7
    [] c = "8" -> 8 [] c = "9" -> 9

DigitChar(n) ==
  CASE n = 0 -> "0" [] n = 1 -> "1" [] n = 2 -> "2" [] n = 3 -> "3"
    [] n = 4 -> "4" [] n = 5 -> "5" [] n = 6 -> "6" [] n = 7 -> "7"
    [] n = 8 -> "8" [] n = 9 -> "9"

RECURSIVE LStrip(_)
LStrip(s) == IF s # <<>> /\ s[1] = " " THEN LStrip(Tail(s)) ELSE s

RECURSIVE RStrip(_)
RStrip(s) ==
  IF s # <<>> /\ s[Len(s)] = " " THEN RStrip(SubSeq(s, 1, Len(s) - 1)) ELSE s

\* str.strip()
Strip(s) == RStrip(LStrip(s))

RECURSIVE DigitsVal(_)
DigitsVal(s) ==
  IF s = <<>> THEN 0
  ELSE 10 * DigitsVal(SubSeq(s, 1, Len(s) - 1)) + DigitVal(s[Len(s)])

IsDigits(s) == s # <<>> /\ \A i \in DOMAIN s : s[i] \in Digits

Unsigned(t) == IF t # <<>> /\ t[1] \in {"-", "+"} THEN Tail(t) ELSE t

Sign(t) == IF t # <<>> /\ t[1] = "-" THEN -1 ELSE 1

DotAt(u) == IF \E i \in DOMAIN u : u[i] = "."
            THEN CHOOSE i \in DOMAIN u : u[i] = "." ELSE 0

\* int(v) succeeds: optional surrounding blanks, optional sign, digits
is_int(v) == IsDigits(Unsigned(Strip(v)))

\* float(v) succeeds: optional surrounding blanks, optional sign, digits with
\* at most one point and at least one digit
is_float(v) ==
  LET u == Unsigned(Strip(v)) IN
  /\ u # <<>>
  /\ \A i \in DOMAIN u : u[i] \in Digits \cup {"."}
  /\ Cardinality({i \in DOMAIN u : u[i] = "."}) <= 1
  /\ \E i \in DOMAIN u : u[i] \in Digits

\* int(v)
IntVal(v) == Sign(Strip(v)) * DigitsVal(Unsigned(Strip(v)))

\* float(v), in tenths
FloatVal(v) ==
  LET t == Strip(v)
      u == Unsigned(t)
      d == DotAt(u)
      ip == IF d = 0 THEN u ELSE SubSeq(u, 1, d - 1)
      fp == IF d = 0 THEN <<>> ELSE SubSeq(u, d + 1, Len(u))
  IN Sign(t) * (10 * DigitsVal(ip) + (IF fp = <<>> THEN 0 ELSE DigitVal(fp[1])))

RECURSIVE NatStr(_)
NatStr(n) == IF n < 10 THEN <<DigitChar(n)>>
             ELSE NatStr(n \div 10) \o <<DigitChar(n % 10)>>

\* the text pandas writes for an int64 cell
FormatInt(n) == IF n < 0 THEN <<"-">> \o NatStr(-n) ELSE NatStr(n)

\* the text pandas writes for a float64 cell (repr of the float), from tenths
FormatFloat(x) ==
  LET a == IF x < 0 THEN -x ELSE x
      body == NatStr(a \div 10) \o <<".">> \o <<DigitChar(a % 10)>>
  IN IF x < 0 THEN <<"-">> \o body ELSE body

\* row.get(field) or "": a missing key reads as the empty text
Get(row, f) == IF f \in DOMAIN row THEN row[f] ELSE <<>>

(***************************************************************************)
(* Validation engine.                                                      *)
(***************************************************************************)
\* EMAIL_RE = ^[^@]+@[^@]+\.[^@]+$
EMAIL_RE_match(e) ==
  \E i \in DOMAIN e : \E j \in DOMAIN e :
    /\ e[i] = "@"
    /\ e[j] = "."
    /\ 1 < i
    /\ i + 1 < j
    /\ j < Len(e)
    /\ \A k \in DOMAIN e : e[k] = "@" => k = i

validate_email(email) == IF email = <<>> THEN TRUE ELSE EMAIL_RE_match(email)

Required(f) == [field |-> f, kind |-> "required"]
Invalid(f) == [field |-> f, kind |-> "format"]

PartnerFields == <<"name", "tax_id", "email", "phone", "address">>
ProductFields == <<"sku", "name", "description", "price", "stock">>

RECURSIVE PartnerErrs(_, _)
PartnerErrs(row, i) ==
  IF i > Len(PartnerFields) THEN <<>>
  ELSE LET field == PartnerFields[i]
           value == Strip(Get(row, field))
           e == IF value = <<>> THEN <<Required(field)>>
                ELSE IF field = "email" /\ ~validate_email(value)
                     THEN <<Invalid(field)>> ELSE <<>>
       IN e \o PartnerErrs(row, i + 1)

\* only the first violated field is reported
validate_partner_row_first(row) ==
  IF PartnerErrs(row, 1) = <<>> THEN <<>> ELSE <<Head(PartnerErrs(row, 1))>>

validate_partner_row(row) == PartnerErrs(row, 1)

RECURSIVE ProductRequiredErrs(_, _)
ProductRequiredErrs(row, i) ==
  IF i > Len(ProductFields) THEN <<>>
  ELSE LET field == ProductFields[i]
           value == Strip(Get(row, field))
       IN (IF value = <<>> THEN <<Required(field)>> ELSE <<>>)
          \o ProductRequiredErrs(row, i + 1)

validate_product_row(row) ==
  ProductRequiredErrs(row, 1)
  \o (IF Get(row, "price") # <<>> /\ ~is_float(Get(row, "price"))
      THEN <<Invalid("price")>> ELSE <<>>)
  \o (IF Get(row, "stock") # <<>> /\ ~is_int(Get(row, "stock"))
      THEN <<Invalid("stock")>> ELSE <<>>)


\* validate_date_iso: datetime.strptime(s, "%Y-%m-%d") on non-empty text
IsLeap(y) == (y % 4 = 0 /\ y % 100 # 0) \/ y % 400 = 0

DaysIn(y, m) ==
  IF m = 2 THEN (IF IsLeap(y) THEN 29 ELSE 28)
  ELSE IF m \in {4, 6, 9, 11} THEN 30 ELSE 31

Dashes(s) == {i \in DOMAIN s : s[i] = "-"}

StrptimeYmd(s) ==
  /\ Cardinality(Dashes(s)) = 2
  /\ LET d1 == CHOOSE i \in Dashes(s) : \A j \in Dashes(s) : i <= j
         d2 == CHOOSE i \in Dashes(s) : \A j \in Dashes(s) : j <= i
         ys == SubSeq(s, 1, d1 - 1)
         ms == SubSeq(s, d1 + 1, d2 - 1)
         ds == SubSeq(s, d2 + 1, Len(s))
     IN /\ IsDigits(ys) /\ Len(ys) = 4
        /\ IsDigits(ms) /\ Len(ms) <= 2
        /\ IsDigits(ds) /\ Len(ds) <= 2
        /\ DigitsVal(ys) >= 1
        /\ DigitsVal(ms) \in 1..12
        /\ DigitsVal(ds) \in 1..DaysIn(DigitsVal(ys), DigitsVal(ms))

validate_date_iso(s) == IF s = <<>> THEN TRUE ELSE StrptimeYmd(s)

\* Python values of the invoice and item field maps: an int or a str
IntV(n) == [t |-> "int", n |-> n, s |-> <<>>]
StrV(s) == [t |-> "str", n |-> 0, s |-> s]
NoneV == [t |-> "none", n |-> 0, s |-> <<>>]

\* bool(v)
Truthy(v) == IF v.t = "int" THEN v.n # 0 ELSE v.s # <<>>

\* isinstance(v, int)
IsInstanceInt(v) == v.t = "int"

GetV(row, f) == IF f \in DOMAIN row THEN row[f] ELSE NoneV

InvoiceFields == <<"partner_id", "invoice_date", "due_date", "status">>
ItemRequiredFields == <<"invoice_id", "product_id", "quantity">>

RECURSIVE RequiredErrs(_, _, _)
RequiredErrs(row, fields, i) ==
  IF i > Len(fields) THEN <<>>
  ELSE (IF ~Truthy(GetV(row, fields[i])) THEN <<Required(fields[i])>> ELSE <<>>)
       \o RequiredErrs(row, fields, i + 1)

validate_invoice_row(row) ==
  RequiredErrs(row, InvoiceFields, 1)
  \o (IF Truthy(GetV(row, "partner_id")) /\ ~IsInstanceInt(GetV(row, "partner_id"))
      THEN <<Invalid("partner_id")>> ELSE <<>>)
  \o (IF Truthy(GetV(row, "invoice_date"))
         /\ ~validate_date_iso(GetV(row, "invoice_date").s)
      THEN <<Invalid("invoice_date")>> ELSE <<>>)
  \o (IF Truthy(GetV(row, "due_date"))
         /\ ~validate_date_iso(GetV(row, "due_date").s)
      THEN <<Invalid("due_date")>> ELSE <<>>)

validate_invoice_item_row(row) ==
  RequiredErrs(row, ItemRequiredFields, 1)
  \o (IF Truthy(GetV(row, "invoice_id")) /\ ~IsInstanceInt(GetV(row, "invoice_id"))
      THEN <<Invalid("invoice_id")>> ELSE <<>>)
  \o (IF Truthy(GetV(row, "product_id")) /\ ~IsInstanceInt(GetV(row, "product_id"))
      THEN <<Invalid("product_id")>> ELSE <<>>)
  \o (IF Truthy(GetV(row, "quantity")) /\ ~IsInstanceInt(GetV(row, "quantity"))
      THEN <<Invalid("quantity")>> ELSE <<>>)

(***************************************************************************)
(* The store: four tables, each a function from the ids of its rows to the *)
(* rows, and sqlite_sequence (seq), the largest id each AUTOINCREMENT      *)
(* table has ever assigned.  A statement either applies as a whole or      *)
(* raises and changes nothing; get_conn commits after every statement.     *)
(***************************************************************************)
\* SQL NULL in an integer column (ids start at 1) and in a text column
NullId == 0
NullText == <<"NULL">>

Without(tbl, id) == [k \in (DOMAIN tbl) \ {id} |-> tbl[k]]

With(tbl, id, row) == [k \in (DOMAIN tbl) \cup {id} |-> IF k = id THEN row ELSE tbl[k]]

Raised(db) == [ok |-> FALSE, db |-> db, id |-> 0]

Applied(db, id) == [ok |-> TRUE, db |-> db, id |-> id]

DB == [partners |-> partners, products |-> products, invoices |-> invoices,
       items |-> items, seq |-> seq]

\* the partner row gets the id after the largest id present (no AUTOINCREMENT)
InsertPartnerRowid(db, row) ==
  LET present == DOMAIN db.partners
      id == IF present = {} THEN 1
            ELSE (CHOOSE m \in present : \A k \in present : k <= m) + 1
  IN IF row.name = NullText THEN Raised(db)
     ELSE Applied([db EXCEPT !.partners = With(@, id, row), !.seq.partners = id], id)

\* INSERT INTO partners: name TEXT NOT NULL
InsertPartner(db, row) ==
  IF row.name = NullText THEN Raised(db)
  ELSE LET id == db.seq.partners + 1 IN
       Applied([db EXCEPT !.partners = With(@, id, row), !.seq.partners = id], id)

\* UPDATE partners SET ... WHERE id=?
UpdatePartnerRow(db, id, row) ==
  IF id \notin DOMAIN db.partners THEN Applied(db, 0)
  ELSE IF row.name = NullText THEN Raised(db)
  ELSE Applied([db EXCEPT !.partners[id] = row], 0)

\* DELETE FROM partners WHERE id=?  with  invoices.partner_id INTEGER NOT NULL
\* ... FOREIGN KEY(partner_id) REFERENCES partners(id) ON DELETE SET NULL
DeletePartnerRow(db, id) ==
  LET cleared == [i \in DOMAIN db.invoices |->
                    IF db.invoices[i].partner_id = id
                    THEN [db.invoices[i] EXCEPT !.partner_id = NullId]
                    ELSE db.invoices[i]]
  IN IF id \notin DOMAIN db.partners THEN Applied(db, 0)
     ELSE IF \E i \in DOMAIN cleared : cleared[i].partner_id = NullId
          THEN Raised(db)
          ELSE Applied([db EXCEPT !.partners = Without(@, id),
                                  !.invoices = cleared], 0)

\* the products table without UNIQUE on sku
ProductConstraintsNoUnique(tbl, id, row) == row.price >= 0 /\ row.stock >= 0

\* the products table's constraints: sku UNIQUE, price NOT NULL CHECK(price >= 0),
\* stock CHECK(stock >= 0)
ProductConstraints(tbl, id, row) ==
  /\ \A k \in (DOMAIN tbl) \ {id} : tbl[k].sku # row.sku
  /\ row.price >= 0
  /\ row.stock >= 0

\* INSERT INTO products
InsertProduct(db, row) ==
  LET id == db.seq.products + 1 IN
  IF ProductConstraints(db.products, id, row)
  THEN Applied([db EXCEPT !.products = With(@, id, row), !.seq.products = id], id)
  ELSE Raised(db)

\* the update also re-derives the items of the product from its new price
UpdateProductRowReprice(db, id, row) ==
  IF id \notin DOMAIN db.products THEN Applied(db, 0)
  ELSE IF ProductConstraints(db.products, id, row)
       THEN Applied([db EXCEPT
                       !.products[id] = row,
                       !.items = [k \in DOMAIN db.items |->
                                    IF db.items[k].product_id = id
                                    THEN [db.items[k] EXCEPT
                                            !.unit_price = row.price,
                                            !.line_total = db.items[k].quantity * row.price]
                                    ELSE db.items[k]]], 0)
       ELSE Raised(db)

\* UPDATE products SET ... WHERE id=?
UpdateProductRow(db, id, row) ==
  IF id \notin DOMAIN db.products THEN Applied(db, 0)
  ELSE IF ProductConstraints(db.products, id, row)
       THEN Applied([db EXCEPT !.products[id] = row], 0)
       ELSE Raised(db)

\* the product row goes although items reference it
DeleteProductRowUnchecked(db, id) ==
  IF id \notin DOMAIN db.products THEN Applied(db, 0)
  ELSE Applied([db EXCEPT !.products = Without(@, id)], 0)

\* DELETE FROM products WHERE id=?  with  invoice_items ... FOREIGN KEY(product_id)
\* REFERENCES products(id)  (no action: the delete is refused while referenced)
DeleteProductRow(db, id) ==
  IF id \notin DOMAIN db.products THEN Applied(db, 0)
  ELSE IF \E k \in DOMAIN db.items : db.items[k].product_id = id
       THEN Raised(db)
       ELSE Applied([db EXCEPT !.products = Without(@, id)], 0)

\* the invoices table without the foreign key on partner_id
InsertInvoiceNoForeignKey(db, row) ==
  LET id == db.seq.invoices + 1 IN
  IF row.partner_id # NullId
  THEN Applied([db EXCEPT !.invoices = With(@, id, row), !.seq.invoices = id], id)
  ELSE Raised(db)

\* INSERT INTO invoices: partner_id NOT NULL REFERENCES partners(id)
InsertInvoice(db, row) ==
  LET id == db.seq.invoices + 1 IN
  IF row.partner_id # NullId /\ row.partner_id \in DOMAIN db.partners
  THEN Applied([db EXCEPT !.invoices = With(@, id, row), !.seq.invoices = id], id)
  ELSE Raised(db)

\* UPDATE invoices SET partner_id=?,invoice_date=?,due_date=?,status=? WHERE id=?
UpdateInvoiceRow(db, id, row) ==
  IF id \notin DOMAIN db.invoices THEN Applied(db, 0)
  ELSE IF row.partner_id # NullId /\ row.partner_id \in DOMAIN db.partners
       THEN Applied([db EXCEPT !.invoices[id] =
                       [row EXCEPT !.total_amount = db.invoices[id].total_amount]], 0)
       ELSE Raised(db)

\* the invoice row goes, its items stay
DeleteInvoiceRowNoCascade(db, id) ==
  IF id \notin DOMAIN db.invoices THEN Applied(db, 0)
  ELSE Applied([db EXCEPT !.invoices = Without(@, id)], 0)

\* DELETE FROM invoices WHERE id=?  with  invoice_items ... FOREIGN KEY(invoice_id)
\* REFERENCES invoices(id) ON DELETE CASCADE
DeleteInvoiceRow(db, id) ==
  IF id \notin DOMAIN db.invoices THEN Applied(db, 0)
  ELSE Applied([db EXCEPT
                  !.invoices = Without(@, id),
                  !.items = [k \in {j \in DOMAIN db.items : db.items[j].invoice_id # id}
                               |-> db.items[k]]], 0)

\* the invoice_items table without CHECK(quantity>0)
InsertItemNoCheck(db, row) ==
  LET id == db.seq.items + 1 IN
  IF /\ row.invoice_id \in DOMAIN db.invoices
     /\ row.product_id \in DOMAIN db.products
  THEN Applied([db EXCEPT !.items = With(@, id, row), !.seq.items = id], id)
  ELSE Raised(db)

\* INSERT INTO invoice_items: both foreign keys, quantity CHECK(quantity>0)
InsertItem(db, row) ==
  LET id == db.seq.items + 1 IN
  IF /\ row.invoice_id \in DOMAIN db.invoices
     /\ row.product_id \in DOMAIN db.products
     /\ row.quantity > 0
  THEN Applied([db EXCEPT !.items = With(@, id, row), !.seq.items = id], id)
  ELSE Raised(db)

\* DELETE FROM invoice_items WHERE id=?
DeleteItemRow(db, id) ==
  IF id \notin DOMAIN db.items THEN Applied(db, 0)
  ELSE Applied([db EXCEPT !.items = Without(@, id)], 0)

RECURSIVE SumOver(_, _)
SumOver(tbl, ids) ==
  IF ids = {} THEN 0
  ELSE LET k == CHOOSE k \in ids : TRUE IN tbl[k].line_total + SumOver(tbl, ids \ {k})

\* SELECT SUM(line_total) FROM invoice_items WHERE invoice_id=?  ... or 0.0
SumLineTotal(db, inv_id) ==
  SumOver(db.items, {k \in DOMAIN db.items : db.items[k].invoice_id = inv_id})

\* the total is never written back
UpdateTotalSkipped(db, inv_id, tot) == db

\* UPDATE invoices SET total_amount=? WHERE id=?
UpdateTotal(db, inv_id, tot) ==
  IF inv_id \notin DOMAIN db.invoices THEN db
  ELSE [db EXCEPT !.invoices[inv_id].total_amount = tot]


(***************************************************************************)
(* Handlers.  last records the handler that ran last: its name, whether it *)
(* completed without an error dialog or exception, the id of the row it    *)
(* selected or inserted, and (for an import) the import's report.          *)
(***************************************************************************)
Store(db) ==
  /\ partners' = db.partners
  /\ products' = db.products
  /\ invoices' = db.invoices
  /\ items' = db.items
  /\ seq' = db.seq

Result(op, ok, id, out) == [op |-> op, ok |-> ok, id |-> id, out |-> out]

\* texts typed into the forms
T_a == <<"a">>
T_b == <<"b">>
T_blank == <<" ">>
T_mail == <<"a", "@", "b", ".", "c">>
T_bad == <<"b", "a", "d">>
T_Draft == <<"D", "r", "a", "f", "t">>
T_date == <<"2", "0", "2", "4", "-", "0", "2", "-", "2", "9">>
T_nodate == <<"2", "0", "2", "3", "-", "0", "2", "-", "2", "9">>
T_due == <<"2", "0", "2", "4", "-", "3", "-", "1">>

PartnerForm(name, email) ==
  [name |-> name, tax_id |-> T_a, email |-> email, phone |-> T_a, address |-> <<" ", "a">>]

PartnerForms ==
  {PartnerForm(T_a, T_mail), PartnerForm(T_a, <<>>), PartnerForm(T_blank, T_bad)}

ProductForm(sku, description, price, stock) ==
  [sku |-> sku, name |-> T_a, description |-> description, price |-> price,
   stock |-> stock]

T_NA == <<"N", "A">>

ProductForms ==
  {ProductForm(T_a, T_a, <<"2">>, <<"3">>),
   ProductForm(T_b, T_NA, <<"0", ".", "5">>, <<"0">>),
   ProductForm(T_a, T_a, <<"-", "1">>, <<"3">>),
   ProductForm(T_b, <<>>, <<"x">>, <<"3">>),
   ProductForm(T_b, T_a, <<"2">>, <<"-", "1">>)}

StripAll(form) == [f \in DOMAIN form |-> Strip(form[f])]

\* add_partner
AddPartnerBody(form) ==
  LET data == StripAll(form)
      err == validate_partner_row(data)
      r == InsertPartner(DB, data)
  IN /\ IF err # <<>>
        THEN /\ Store(DB)
             /\ last' = Result("add_partner", FALSE, 0, <<>>)
        ELSE /\ Store(r.db)
             /\ last' = Result("add_partner", r.ok, r.id, <<>>)
     /\ UNCHANGED fresh

AddPartner ==
  \E form \in PartnerForms : seq.partners < MaxPartners /\ AddPartnerBody(form)

\* edit_partner / save_update on the selected partner
UpdatePartnerBody(pid, form) ==
  LET data == StripAll(form)
      err == validate_partner_row(data)
      r == UpdatePartnerRow(DB, pid, data)
  IN /\ IF err # <<>>
        THEN /\ Store(DB)
             /\ last' = Result("update_partner", FALSE, pid, <<>>)
        ELSE /\ Store(r.db)
             /\ last' = Result("update_partner", r.ok, pid, <<>>)
     /\ UNCHANGED fresh

UpdatePartner ==
  \E pid \in 1..seq.partners : \E form \in PartnerForms : UpdatePartnerBody(pid, form)

\* delete_partner on the selected partner
DeletePartnerBody(pid) ==
  LET r == DeletePartnerRow(DB, pid)
  IN /\ Store(r.db)
     /\ last' = Result("delete_partner", r.ok, pid, <<>>)
     /\ UNCHANGED fresh

DeletePartner == \E pid \in 1..seq.partners : DeletePartnerBody(pid)

ProductRow(data) ==
  [sku |-> data.sku, name |-> data.name, description |-> data.description,
   price |-> FloatVal(data.price), stock |-> IntVal(data.stock)]

\* add_product
AddProductBody(form) ==
  LET data == StripAll(form)
      err == validate_product_row(data)
      r == InsertProduct(DB, ProductRow(data))
  IN /\ IF err # <<>>
        THEN /\ Store(DB)
             /\ last' = Result("add_product", FALSE, 0, <<>>)
        ELSE /\ Store(r.db)
             /\ last' = Result("add_product", r.ok, r.id, <<>>)
     /\ UNCHANGED fresh

AddProduct ==
  \E form \in ProductForms : seq.products < MaxProducts /\ AddProductBody(form)

\* edit_product / save_update on the selected product
UpdateProductBody(pid, form) ==
  LET data == StripAll(form)
      err == validate_product_row(data)
      r == UpdateProductRow(DB, pid, ProductRow(data))
  IN /\ IF err # <<>>
        THEN /\ Store(DB)
             /\ last' = Result("update_product", FALSE, pid, <<>>)
        ELSE /\ Store(r.db)
             /\ last' = Result("update_product", r.ok, pid, <<>>)
     /\ UNCHANGED fresh

UpdateProduct ==
  \E pid \in 1..seq.products : \E form \in ProductForms : UpdateProductBody(pid, form)

\* delete_product on the selected product
DeleteProductBody(pid) ==
  LET r == DeleteProductRow(DB, pid)
  IN /\ Store(r.db)
     /\ last' = Result("delete_product", r.ok, pid, <<>>)
     /\ UNCHANGED fresh

DeleteProduct == \E pid \in 1..seq.products : DeleteProductBody(pid)

\* the leading token of the combobox text: anything the user typed
IdTexts(n) == {<<"x">>} \cup {NatStr(k) : k \in 0..(n + 1)}

InvoiceData(pid, invoice_date, due_date, status) ==
  [partner_id |-> IntV(pid), invoice_date |-> StrV(invoice_date),
   due_date |-> StrV(due_date), status |-> StrV(status)]

InvoiceRow(pid, invoice_date, due_date, status) ==
  [partner_id |-> pid, invoice_date |-> invoice_date,
   due_date |-> IF due_date # <<>> THEN due_date ELSE NullText,
   status |-> status, total_amount |-> 0]

InvoiceForm(partner_val, invoice_date, due_date, status_val) ==
  [partner |-> partner_val, invoice_date |-> invoice_date, due_date |-> due_date,
   status |-> status_val]

\* what the invoice form can hold: any partner token with good dates and status,
\* and the first partner with a date that does not exist, no due date, no status
InvoiceForms ==
  {InvoiceForm(p, T_date, T_due, T_Draft) : p \in IdTexts(seq.partners)}
  \cup {InvoiceForm(<<"1">>, T_nodate, T_due, T_Draft),
        InvoiceForm(<<"1">>, T_date, <<>>, T_Draft),
        InvoiceForm(<<"1">>, T_date, T_due, <<>>)}

\* add_invoice
AddInvoiceBody(partner_val, invoice_date, due_date, status_val) ==
  LET pid == IntVal(partner_val)
      err == validate_invoice_row(InvoiceData(pid, invoice_date, due_date, status_val))
      r == InsertInvoice(DB, InvoiceRow(pid, invoice_date, due_date, status_val))
  IN /\ IF ~is_int(partner_val)
        THEN /\ Store(DB)
             /\ last' = Result("add_invoice", FALSE, 0, <<>>)
        ELSE IF err # <<>>
        THEN /\ Store(DB)
             /\ last' = Result("add_invoice", FALSE, 0, <<>>)
        ELSE /\ Store(r.db)
             /\ last' = Result("add_invoice", r.ok, r.id, <<>>)
     /\ UNCHANGED fresh

AddInvoice ==
  \E f \in InvoiceForms :
    /\ seq.invoices < MaxInvoices
    /\ AddInvoiceBody(f.partner, f.invoice_date, f.due_date, f.status)

\* update_invoice on the selected invoice
UpdateInvoiceBody(inv_id, partner_val, invoice_date, due_date, status_val) ==
  LET pid == IntVal(partner_val)
      err == validate_invoice_row(InvoiceData(pid, invoice_date, due_date, status_val))
      r == UpdateInvoiceRow(DB, inv_id, InvoiceRow(pid, invoice_date, due_date, status_val))
  IN /\ IF ~is_int(partner_val)
        THEN /\ Store(DB)
             /\ last' = Result("update_invoice", FALSE, inv_id, <<>>)
        ELSE IF err # <<>>
        THEN /\ Store(DB)
             /\ last' = Result("update_invoice", FALSE, inv_id, <<>>)
        ELSE /\ Store(r.db)
             /\ last' = Result("update_invoice", r.ok, inv_id, <<>>)
     /\ UNCHANGED fresh

UpdateInvoice ==
  \E inv_id \in 1..seq.invoices : \E f \in InvoiceForms :
    UpdateInvoiceBody(inv_id, f.partner, f.invoice_date, f.due_date, f.status)

\* delete_invoice on the selected invoice
DeleteInvoiceBody(inv_id) ==
  LET r == DeleteInvoiceRow(DB, inv_id)
  IN /\ Store(r.db)
     /\ last' = Result("delete_invoice", r.ok, inv_id, <<>>)
     /\ UNCHANGED fresh

DeleteInvoice == \E inv_id \in 1..seq.invoices : DeleteInvoiceBody(inv_id)

ItemData(inv_id, pid, qty) ==
  [invoice_id |-> IntV(inv_id), product_id |-> IntV(pid), quantity |-> IntV(qty)]

ItemForm(prod_val, qty_val, unit) == [product |-> prod_val, qty |-> qty_val, unit |-> unit]

\* what the item controls can hold: any product token with quantity 2 and no
\* unit price, and the first product with other quantities and unit prices
ItemForms ==
  {ItemForm(p, <<"2">>, <<>>) : p \in IdTexts(seq.products)}
  \cup {ItemForm(<<"1">>, q, <<>>) : q \in {<<"0">>, <<"-", "1">>, <<"x">>}}
  \cup {ItemForm(<<"1">>, <<"2">>, u) : u \in {<<"x">>, <<"1", ".", "5">>}}

\* the unit price alone is stored as the line total
LineTotalUnitOnly(qty, unit) == unit

\* line_total = qty * unit
LineTotal(qty, unit) == qty * unit

\* add_item_to_invoice with the gateway call number `fault` (1: INSERT, 2: SELECT
\* SUM, 3: UPDATE) raising a storage error; 0: no storage error
AddItemBody(inv_id, prod_val, qty_val, unit, fault) ==
  LET pid == IntVal(prod_val)
      qty == IntVal(qty_val)
      err == validate_invoice_item_row(ItemData(inv_id, pid, qty))
      lookup == unit = <<>> \/ ~is_float(unit)
      price == IF lookup THEN products[pid].price ELSE FloatVal(unit)
      row == [invoice_id |-> inv_id, product_id |-> pid, quantity |-> qty,
              unit_price |-> price, line_total |-> LineTotal(qty, price)]
      r == IF fault = 1 THEN Raised(DB) ELSE InsertItem(DB, row)
      tot == SumLineTotal(r.db, inv_id)
  IN /\ IF ~is_int(prod_val) \/ ~is_int(qty_val)
        THEN /\ Store(DB)
             /\ last' = Result("add_item", FALSE, 0, <<>>)
        ELSE IF err # <<>>
        THEN /\ Store(DB)
             /\ last' = Result("add_item", FALSE, 0, <<>>)
        ELSE IF lookup /\ pid \notin DOMAIN products
        THEN /\ Store(DB)
             /\ last' = Result("add_item", FALSE, 0, <<>>)
        ELSE IF ~r.ok
        THEN /\ Store(DB)
             /\ last' = Result("add_item", FALSE, 0, <<>>)
        ELSE IF fault \in {2, 3}
        THEN /\ Store(r.db)
             /\ last' = Result("add_item", FALSE, r.id, <<>>)
        ELSE /\ Store(UpdateTotal(r.db, inv_id, tot))
             /\ last' = Result("add_item", TRUE, r.id, <<>>)
     /\ UNCHANGED fresh

\* add_item_to_invoice on the selected invoice
AddItem ==
  \E inv_id \in 1..seq.invoices : \E f \in ItemForms :
    /\ seq.items < MaxItems
    /\ AddItemBody(inv_id, f.product, f.qty, f.unit, 0)

\* delete_item with the gateway call number `fault` (1: DELETE, 2: SELECT SUM,
\* 3: UPDATE) raising a storage error; 0: no storage error
DeleteItemBody(item_id, inv_id, fault) ==
  LET r == IF fault = 1 THEN Raised(DB) ELSE DeleteItemRow(DB, item_id)
      tot == SumLineTotal(r.db, inv_id)
  IN /\ IF ~r.ok
        THEN /\ Store(DB)
             /\ last' = Result("delete_item", FALSE, item_id, <<>>)
        ELSE IF fault \in {2, 3}
        THEN /\ Store(r.db)
             /\ last' = Result("delete_item", FALSE, item_id, <<>>)
        ELSE /\ Store(UpdateTotal(r.db, inv_id, tot))
             /\ last' = Result("delete_item", TRUE, item_id, <<>>)
     /\ UNCHANGED fresh

\* delete_item on the selected item row (id, invoice_id)
DeleteItem ==
  \E item_id \in DOMAIN items : DeleteItemBody(item_id, items[item_id].invoice_id, 0)

\* the same handlers when a gateway call raises a storage error
AddItemFault ==
  \E inv_id \in 1..seq.invoices : \E f \in ItemForms : \E fault \in 1..3 :
    /\ seq.items < MaxItems
    /\ AddItemBody(inv_id, f.product, f.qty, f.unit, fault)

DeleteItemFault ==
  \E item_id \in DOMAIN items : \E fault \in 1..3 :
    DeleteItemBody(item_id, items[item_id].invoice_id, fault)

EmptyTable == [k \in {} |-> 0]

(***************************************************************************)
(* CSV export and import.  A file is its ordered column list and its rows, *)
(* each row a map from column name to the cell's text.                     *)
(***************************************************************************)
\* the cell texts pandas.read_csv reads as missing (NaN)
NaValues ==
  {<<>>, <<"N", "A">>, <<"N", "/", "A">>, <<"n", "/", "a">>, <<"N", "a", "N">>,
   <<"n", "a", "n">>, <<"N", "U", "L", "L">>, <<"n", "u", "l", "l">>,
   <<"#", "N", "/", "A">>}

\* pd.read_csv(path, dtype=str).fillna(""): a cell pandas reads as missing
\* becomes the empty text, any other cell keeps its text
ReadCsvCell(cell) == IF cell \in NaValues THEN <<>> ELSE cell

read_csv(file) ==
  [columns |-> file.columns,
   rows |-> [i \in DOMAIN file.rows |->
               [c \in DOMAIN file.rows[i] |-> ReadCsvCell(file.rows[i][c])]]]

RECURSIVE SortedIds(_)
SortedIds(ids) ==
  IF ids = {} THEN <<>>
  ELSE LET m == CHOOSE m \in ids : \A k \in ids : m <= k
       IN <<m>> \o SortedIds(ids \ {m})

\* export_table_to_csv("products"): SELECT * FROM products written by to_csv
ExportProducts(tbl) ==
  LET ids == SortedIds(DOMAIN tbl) IN
  [columns |-> <<"id">> \o ProductFields,
   rows |-> [i \in DOMAIN ids |->
               [id |-> FormatInt(ids[i]),
                sku |-> tbl[ids[i]].sku,
                name |-> tbl[ids[i]].name,
                description |-> tbl[ids[i]].description,
                price |-> FormatFloat(tbl[ids[i]].price),
                stock |-> FormatInt(tbl[ids[i]].stock)]]]

\* the id column is accepted at either end
AcceptedColumnsIdAnywhere(fields) == {fields, <<"id">> \o fields, fields \o <<"id">>}

\* expected_basic / expected_with_id
AcceptedColumns(fields) == {fields, <<"id">> \o fields}

\* data = row.to_dict(); del data["id"]
DropId(row) == [c \in (DOMAIN row) \ {"id"} |-> row[c]]

\* the error entry carries the 0-based index
RowErrorZeroBased(i, kind, msgs) == [row |-> i, kind |-> kind, msgs |-> msgs]

RowError(i, kind, msgs) == [row |-> i + 1, kind |-> kind, msgs |-> msgs]

Report(rejected, added, errors) ==
  [rejected |-> rejected, added |-> added, errors |-> errors]

\* data["tax_id"] or None
OrNone(text) == IF text = <<>> THEN NullText ELSE text

\* the loop of import_partners_csv from row i (0-based, as df.iterrows numbers it)
RECURSIVE ImportPartnerRows(_, _, _, _, _)
ImportPartnerRows(db, rows, i, added, errors) ==
  IF i >= Len(rows) THEN [db |-> db, report |-> Report(FALSE, added, errors)]
  ELSE LET data == DropId(rows[i + 1])
           err == validate_partner_row(data)
           r == InsertPartner(db, [name |-> data.name, tax_id |-> OrNone(data.tax_id),
                                   email |-> OrNone(data.email),
                                   phone |-> OrNone(data.phone),
                                   address |-> OrNone(data.address)])
       IN IF err # <<>>
          THEN ImportPartnerRows(db, rows, i + 1, added,
                                 Append(errors, RowError(i, "validation", err)))
          ELSE IF r.ok
          THEN ImportPartnerRows(r.db, rows, i + 1, added + 1, errors)
          ELSE ImportPartnerRows(db, rows, i + 1, added,
                                 Append(errors, RowError(i, "DB", <<>>)))

\* import_partners_csv
import_partners_csv(db, file) ==
  LET df == read_csv(file) IN
  IF df.columns \notin AcceptedColumns(PartnerFields)
  THEN [db |-> db, report |-> Report(TRUE, 0, <<>>)]
  ELSE ImportPartnerRows(db, df.rows, 0, 0, <<>>)

\* float(data["price"]) and int(data["stock"] or 0) do not raise
ProductCellsConvert(data) ==
  is_float(data.price) /\ (data.stock = <<>> \/ is_int(data.stock))

ImportedProductRow(data) ==
  [sku |-> data.sku, name |-> data.name, description |-> data.description,
   price |-> FloatVal(data.price),
   stock |-> IF data.stock = <<>> THEN 0 ELSE IntVal(data.stock)]

\* the loop of import_products_csv from row i (0-based)
RECURSIVE ImportProductRows(_, _, _, _, _)
ImportProductRows(db, rows, i, added, errors) ==
  IF i >= Len(rows) THEN [db |-> db, report |-> Report(FALSE, added, errors)]
  ELSE LET data == DropId(rows[i + 1])
           err == validate_product_row(data)
           r == IF ProductCellsConvert(data)
                THEN InsertProduct(db, ImportedProductRow(data)) ELSE Raised(db)
       IN IF err # <<>>
          THEN ImportProductRows(db, rows, i + 1, added,
                                 Append(errors, RowError(i, "validation", err)))
          ELSE IF r.ok
          THEN ImportProductRows(r.db, rows, i + 1, added + 1, errors)
          ELSE ImportProductRows(db, rows, i + 1, added,
                                 Append(errors, RowError(i, "DB", <<>>)))

\* import_products_csv
import_products_csv(db, file) ==
  LET df == read_csv(file) IN
  IF df.columns \notin AcceptedColumns(ProductFields)
  THEN [db |-> db, report |-> Report(TRUE, 0, <<>>)]
  ELSE ImportProductRows(db, df.rows, 0, 0, <<>>)

\* the files offered to the import dialogs
SeqsUpTo(S, n) == UNION {[1..k -> S] : k \in 0..n}

Swap12(fields) == <<fields[2], fields[1]>> \o SubSeq(fields, 3, Len(fields))

Headers(fields) ==
  {fields, <<"id">> \o fields,
   Swap12(fields), Tail(fields), fields \o <<"id">>, fields \o <<"note">>}

T_id == <<"7">>

\* a file with the given columns whose rows carry the given field texts
FileOf(columns, body) ==
  [columns |-> columns,
   rows |-> [i \in DOMAIN body |->
               [c \in Range(columns) |->
                  IF c \in DOMAIN body[i] THEN body[i][c]
                  ELSE IF c = "id" THEN T_id ELSE T_a]]]

GoodPartnerRow == PartnerForm(T_a, T_mail)
BadPartnerRow == PartnerForm(<<>>, T_bad)

PartnerCsvRows == {GoodPartnerRow, BadPartnerRow}

\* the partner files' bodies: every body of up to MaxRows rows, and the bodies
\* of MaxPartnerRows rows of which at most one row is bad
PartnerBodies ==
  SeqsUpTo(PartnerCsvRows, MaxRows)
  \cup {[i \in 1..MaxPartnerRows |-> IF i = k THEN BadPartnerRow ELSE GoodPartnerRow] :
          k \in 0..MaxPartnerRows}

ProductCsvRows ==
  {ProductForm(T_a, T_a, <<"2">>, <<"3">>),
   ProductForm(T_b, T_a, <<"0", ".", "5">>, <<"0">>),
   ProductForm(<<" ", "a">>, T_a, <<"-", "1">>, <<"3">>),
   ProductForm(T_b, T_NA, <<"2">>, <<>>)}

\* import_partners_csv on the chosen file
ImportPartnersBody(file) ==
  LET r == import_partners_csv(DB, file)
  IN /\ Store(r.db)
     /\ last' = Result("import_partners", ~r.report.rejected, 0,
                       [file |-> file, report |-> r.report])
     /\ UNCHANGED fresh

ImportPartners ==
  \E columns \in Headers(PartnerFields) :
  \E body \in PartnerBodies :
    /\ seq.partners + Len(body) <= MaxImported
    /\ columns \notin AcceptedColumns(PartnerFields) => Len(body) = 1
    /\ ImportPartnersBody(FileOf(columns, body))

\* import_products_csv on the chosen file
ImportProductsBody(file) ==
  LET r == import_products_csv(DB, file)
  IN /\ Store(r.db)
     /\ last' = Result("import_products", ~r.report.rejected, 0,
                       [file |-> file, report |-> r.report])
     /\ UNCHANGED fresh

ImportProducts ==
  \E columns \in Headers(ProductFields) :
  \E body \in SeqsUpTo(ProductCsvRows, MaxRows) :
    /\ seq.products + Len(body) <= MaxCatalog
    /\ columns \notin AcceptedColumns(ProductFields) => Len(body) = 1
    /\ ImportProductsBody(FileOf(columns, body))

\* add_product, in the catalogue specification
AddCatalogProduct ==
  \E form \in ProductForms : seq.products < MaxCatalog /\ AddProductBody(form)

EmptyDB ==
  [partners |-> EmptyTable, products |-> EmptyTable, invoices |-> EmptyTable,
   items |-> EmptyTable,
   seq |-> [partners |-> 0, products |-> 0, invoices |-> 0, items |-> 0]]

\* export_table_to_csv("products"), then import_products_csv of that file into
\* a store whose product table is empty (fresh)
RoundTrip ==
  LET file == ExportProducts(products)
      r == import_products_csv(EmptyDB, file)
  IN /\ fresh' = r.db.products
     /\ last' = Result("round_trip", ~r.report.rejected, 0,
                       [file |-> file, report |-> r.report])
     /\ UNCHANGED <<partners, products, invoices, items, seq>>

\* the partner field maps given to validate_partner_row
Emails == SeqsUpTo({"a", "@", "."}, MaxEmailLen)

PartnerMaps ==
  {[name |-> n, tax_id |-> t, email |-> e, phone |-> T_a, address |-> a] :
     n \in {T_a, T_blank}, t \in {T_a, <<>>}, e \in Emails \cup {<<" ", " ">>, T_bad},
     a \in {T_a, <<>>}}
  \cup {[name |-> n, tax_id |-> T_a, phone |-> T_a, address |-> T_a] :
          n \in {T_a, <<>>}}

\* validate_partner_row applied to the field map held in last
ValidatePartner ==
  /\ last.op = "partner_map"
  /\ last' = Result("validate_partner", validate_partner_row(last.out.row) = <<>>, 0,
                    [row |-> last.out.row, errors |-> validate_partner_row(last.out.row)])
  /\ UNCHANGED <<partners, products, invoices, items, seq, fresh>>

\* the product field maps given to validate_product_row
ProductMaps ==
  {[sku |-> k, name |-> n, description |-> T_a, price |-> p, stock |-> t] :
     k \in {T_a, T_blank}, n \in {T_a, <<>>},
     p \in {<<"2">>, <<"x">>, <<>>, T_blank, <<"-", "1">>},
     t \in {<<"3">>, <<"x">>, <<>>, T_blank}}
  \cup {[sku |-> T_a, name |-> T_a, description |-> T_a, price |-> p] :
          p \in {<<"2">>, <<"x">>}}

\* the invoice field maps given to validate_invoice_row
InvoiceMaps ==
  {[partner_id |-> p, invoice_date |-> StrV(d), due_date |-> StrV(u), status |-> StrV(t)] :
     p \in {IntV(1), IntV(0), StrV(<<"1">>)},
     d \in {T_date, T_nodate, <<>>},
     u \in {T_due, T_bad, <<>>},
     t \in {T_Draft, <<>>}}

\* the item field maps given to validate_invoice_item_row
ItemMaps ==
  {[invoice_id |-> i, product_id |-> p, quantity |-> q] :
     i \in {IntV(1), IntV(0), StrV(<<"1">>)},
     p \in {IntV(1), IntV(0), StrV(<<"1">>)},
     q \in {IntV(2), IntV(0), IntV(-1), StrV(<<"2">>)}}

\* validate_product_row applied to the field map held in last
ValidateProduct ==
  /\ last.op = "product_map"
  /\ last' = Result("validate_product", validate_product_row(last.out.row) = <<>>, 0,
                    [row |-> last.out.row, errors |-> validate_product_row(last.out.row)])
  /\ UNCHANGED <<partners, products, invoices, items, seq, fresh>>

\* validate_invoice_row applied to the field map held in last
ValidateInvoice ==
  /\ last.op = "invoice_map"
  /\ last' = Result("validate_invoice", validate_invoice_row(last.out.row) = <<>>, 0,
                    [row |-> last.out.row, errors |-> validate_invoice_row(last.out.row)])
  /\ UNCHANGED <<partners, products, invoices, items, seq, fresh>>

\* validate_invoice_item_row applied to the field map held in last
ValidateItem ==
  /\ last.op = "item_map"
  /\ last' = Result("validate_item", validate_invoice_item_row(last.out.row) = <<>>, 0,
                    [row |-> last.out.row, errors |-> validate_invoice_item_row(last.out.row)])
  /\ UNCHANGED <<partners, products, invoices, items, seq, fresh>>

Init ==
  /\ partners = EmptyTable
  /\ products = EmptyTable
  /\ invoices = EmptyTable
  /\ items = EmptyTable
  /\ seq = [partners |-> 0, products |-> 0, invoices |-> 0, items |-> 0]
  /\ last = Result("init", TRUE, 0, <<>>)
  /\ fresh = EmptyTable

Next ==
  \/ AddPartner
  \/ UpdatePartner
  \/ DeletePartner
  \/ AddProduct
  \/ UpdateProduct
  \/ DeleteProduct
  \/ AddInvoice
  \/ UpdateInvoice
  \/ DeleteInvoice
  \/ AddItem
  \/ DeleteItem

Spec == Init /\ [][Next]_vars

NextFault == Next \/ AddItemFault \/ DeleteItemFault

SpecFault == Init /\ [][NextFault]_vars

NextCatalog ==
  \/ AddCatalogProduct
  \/ UpdateProduct
  \/ DeleteProduct
  \/ ImportProducts
  \/ RoundTrip

SpecCatalog == Init /\ [][NextCatalog]_vars

NextImport ==
  \/ ImportPartners
  \/ ImportProducts

SpecImport == Init /\ [][NextImport]_vars

\* the rows of the product files offered to the whole store: those of
\* ProductCsvRows, a row with an empty stock cell and a row with a negative stock
StoreCsvRows ==
  ProductCsvRows
  \cup {ProductForm(<<"c">>, T_a, <<"2">>, <<>>),
        ProductForm(<<"c">>, T_a, <<"2">>, <<"-", "1">>)}

\* import_products_csv of a file with an accepted column list and up to
\* MaxProducts rows, into a table that stays within the bound of add_product
StoreImportProducts ==
  \E columns \in AcceptedColumns(ProductFields) :
  \E body \in SeqsUpTo(StoreCsvRows, MaxProducts) :
    /\ import_products_csv(DB, FileOf(columns, body)).db.seq.products <= MaxProducts
    /\ ImportProductsBody(FileOf(columns, body))

\* every handler and the product import on one store
NextStore == Next \/ StoreImportProducts

SpecStore == Init /\ [][NextStore]_vars

\* import_partners_csv of a file with an accepted column list
RegistryImportPartners ==
  \E columns \in AcceptedColumns(PartnerFields) :
  \E body \in SeqsUpTo(PartnerCsvRows, MaxRows) :
    /\ seq.partners + Len(body) <= MaxCatalog
    /\ ImportPartnersBody(FileOf(columns, body))

\* import_products_csv of a file with an accepted column list
RegistryImportProducts ==
  \E columns \in AcceptedColumns(ProductFields) :
  \E body \in SeqsUpTo(ProductCsvRows, MaxRows) :
    /\ seq.products + Len(body) <= MaxCatalog
    /\ ImportProductsBody(FileOf(columns, body))

\* the partner and product registries: rows come by the add handlers and by
\* the imports and go by the delete handlers
NextRegistry ==
  \/ AddPartner
  \/ DeletePartner
  \/ RegistryImportPartners
  \/ AddCatalogProduct
  \/ DeleteProduct
  \/ RegistryImportProducts

SpecRegistry == Init /\ [][NextRegistry]_vars

InitValidate ==
  /\ partners = EmptyTable
  /\ products = EmptyTable
  /\ invoices = EmptyTable
  /\ items = EmptyTable
  /\ seq = [partners |-> 0, products |-> 0, invoices |-> 0, items |-> 0]
  /\ \E row \in PartnerMaps :
       last = Result("partner_map", TRUE, 0, [row |-> row, errors |-> <<>>])
  /\ fresh = EmptyTable

NextValidate == ValidatePartner

SpecValidate == InitValidate /\ [][NextValidate]_vars

\* a field map of any of the four entities, then its validator
InitValidators ==
  /\ partners = EmptyTable
  /\ products = EmptyTable
  /\ invoices = EmptyTable
  /\ items = EmptyTable
  /\ seq = [partners |-> 0, products |-> 0, invoices |-> 0, items |-> 0]
  /\ \/ \E row \in PartnerMaps :
          last = Result("partner_map", TRUE, 0, [row |-> row, errors |-> <<>>])
     \/ \E row \in ProductMaps :
          last = Result("product_map", TRUE, 0, [row |-> row, errors |-> <<>>])
     \/ \E row \in InvoiceMaps :
          last = Result("invoice_map", TRUE, 0, [row |-> row, errors |-> <<>>])
     \/ \E row \in ItemMaps :
          last = Result("item_map", TRUE, 0, [row |-> row, errors |-> <<>>])
  /\ fresh = EmptyTable

NextValidators ==
  \/ ValidatePartner
  \/ ValidateProduct
  \/ ValidateInvoice
  \/ ValidateItem

SpecValidators == InitValidators /\ [][NextValidators]_vars

(***************************************************************************)
(* Properties.                                                             *)
(***************************************************************************)
ItemsOf(inv_id) == {k \in DOMAIN items : items[k].invoice_id = inv_id}

RECURSIVE LineTotals(_)
LineTotals(ids) ==
  IF ids = {} THEN 0
  ELSE LET k == CHOOSE k \in ids : TRUE IN items[k].line_total + LineTotals(ids \ {k})

\* C1: in every state reached by handlers that ran to completion, each invoice's
\* stored total_amount is the sum of line_total over the items attached to it
\* (0 when it has none).
C1_TotalIsSumOfItems ==
  \A i \in DOMAIN invoices : invoices[i].total_amount = LineTotals(ItemsOf(i))

\* an item was deleted from an invoice that keeps another item and a non-zero total
C1_Witness ==
  /\ last.op = "delete_item" /\ last.ok
  /\ \E i \in DOMAIN invoices : ItemsOf(i) # {} /\ invoices[i].total_amount > 0


TotalsConsistent ==
  \A i \in DOMAIN invoices : invoices[i].total_amount = LineTotals(ItemsOf(i))

\* C2: when a step of add_item or delete_item fails (the item write, the SUM
\* read or the total_amount update), the whole operation is rolled back: the
\* item write is not persisted and no invoice has a total_amount different from
\* the sum of its items' line_total.
C2_FailureRollsBack ==
  [][(last'.op \in {"add_item", "delete_item"} /\ ~last'.ok)
     => (items' = items /\ TotalsConsistent')]_vars

\* C3: delete_partner on a partner that an invoice references succeeds: the
\* partner row is removed and every invoice that referenced it is still present,
\* unchanged but for its partner_id, which is cleared.
C3_DeletePartnerClearsReference ==
  [][\A pid \in DOMAIN partners :
       (/\ last'.op = "delete_partner"
        /\ last'.id = pid
        /\ \E i \in DOMAIN invoices : invoices[i].partner_id = pid)
       => /\ last'.ok
          /\ pid \notin DOMAIN partners'
          /\ DOMAIN invoices' = DOMAIN invoices
          /\ \A i \in DOMAIN invoices :
               invoices'[i] = IF invoices[i].partner_id = pid
                              THEN [invoices[i] EXCEPT !.partner_id = NullId]
                              ELSE invoices[i]]_vars

\* C4: delete_invoice on an invoice with N >= 0 items removes the invoice and all
\* of its items in one step; afterwards no item has that invoice_id and the items
\* of other invoices are untouched.
C4_DeleteInvoiceCascades ==
  [][\A inv_id \in DOMAIN invoices :
       (last'.op = "delete_invoice" /\ last'.id = inv_id)
       => /\ inv_id \notin DOMAIN invoices'
          /\ \A k \in DOMAIN items' : items'[k].invoice_id # inv_id
          /\ \A k \in DOMAIN items :
               items[k].invoice_id # inv_id => k \in DOMAIN items' /\ items'[k] = items[k]
          /\ DOMAIN items' \subseteq DOMAIN items]_vars

\* the first invoice was deleted while the second invoice keeps its item
C4_Witness ==
  /\ last.op = "delete_invoice" /\ last.ok /\ last.id = 1
  /\ 1 \notin DOMAIN invoices
  /\ 2 \in DOMAIN invoices
  /\ seq.items = 2
  /\ \E k \in DOMAIN items : items[k].invoice_id = 2
  /\ Cardinality(DOMAIN items) = 1

\* C5: every item written by add_item has line_total = quantity * unit_price,
\* where unit_price is the supplied value when a numeric unit price is given and
\* otherwise the referenced product's price at the moment of the add.
C5_LineTotalIsQtyTimesUnit ==
  [][\A inv_id \in 1..seq.invoices : \A f \in ItemForms :
       (AddItemBody(inv_id, f.product, f.qty, f.unit, 0) /\ last'.ok)
       => LET it == items'[last'.id]
              supplied == f.unit # <<>> /\ is_float(f.unit)
          IN /\ last'.id \notin DOMAIN items
             /\ it.quantity = IntVal(f.qty)
             /\ it.unit_price = IF supplied THEN FloatVal(f.unit)
                                ELSE products[IntVal(f.product)].price
             /\ it.line_total = it.quantity * it.unit_price]_vars

\* an item was just added, one item carries a supplied unit price of 1.5 and
\* another the price of its product
C5_Witness ==
  /\ last.op = "add_item" /\ last.ok
  /\ \E k \in DOMAIN items :
       /\ items[k].unit_price = 15
       /\ items[k].line_total = 30
       /\ products[items[k].product_id].price # 15
  /\ \E k \in DOMAIN items :
       /\ items[k].unit_price = products[items[k].product_id].price
       /\ items[k].line_total = 2 * items[k].unit_price


SkuUnique ==
  \A i \in DOMAIN products : \A j \in DOMAIN products :
    i # j => products[i].sku # products[j].sku

DuplicateSkuRefused ==
  /\ \A form \in ProductForms :
       (/\ AddProductBody(form)
        /\ \E k \in DOMAIN products : products[k].sku = Strip(form.sku))
       => (~last'.ok /\ products' = products)
  /\ \A pid \in DOMAIN products : \A form \in ProductForms :
       (/\ UpdateProductBody(pid, form)
        /\ \E k \in (DOMAIN products) \ {pid} : products[k].sku = Strip(form.sku))
       => (~last'.ok /\ products' = products)

\* C6: no two persisted products ever share a sku, and an insert or update that
\* would duplicate an existing sku fails and leaves the product table unchanged.
C6_SkuUnique == []SkuUnique /\ [][DuplicateSkuRefused]_vars

\* two products are stored and the update of one of them to the other's sku was
\* refused
C6_Witness ==
  /\ Cardinality(DOMAIN products) = 2
  /\ last.op = "update_product" /\ ~last.ok
  /\ \E k \in (DOMAIN products) \ {last.id} : products[k].sku = T_a

RECURSIVE AcceptedIndexes(_, _, _)
AcceptedIndexes(errRows, i, n) ==
  IF i > n THEN <<>>
  ELSE (IF i \in errRows THEN <<>> ELSE <<i>>) \o AcceptedIndexes(errRows, i + 1, n)

\* what an import that was not rejected must have done: rows are the rows read,
\* rep the report, old / new the table before and after, n the last id assigned
\* before, Fails(row) whether the row fails validation, Stored(row) the row as
\* written
ImportOutcome(rows, rep, old, new, n, Fails(_), Stored(_)) ==
  LET errRows == {rep.errors[k].row : k \in DOMAIN rep.errors}
      okRows == AcceptedIndexes(errRows, 1, Len(rows))
  IN /\ Cardinality(errRows) = Len(rep.errors)
     /\ errRows \subseteq 1..Len(rows)
     /\ \A i \in 1..Len(rows) : Fails(DropId(rows[i])) => i \in errRows
     /\ rep.added = Len(okRows)
     /\ DOMAIN new = (DOMAIN old) \cup ((n + 1)..(n + rep.added))
     /\ \A k \in DOMAIN old : new[k] = old[k]
     /\ \A j \in 1..rep.added : new[n + j] = Stored(DropId(rows[okRows[j]]))

PartnerFails(row) == validate_partner_row(row) # <<>>
ProductFails(row) == validate_product_row(row) # <<>>
PartnerStored(row) == row
ProductStored(row) ==
  [sku |-> row.sku, name |-> row.name, description |-> row.description,
   price |-> FloatVal(row.price), stock |-> IntVal(row.stock)]

\* C7: an import with an accepted column list processes every row whatever
\* happened to earlier rows; a row that fails validation or is refused by the
\* store is not persisted and has exactly one error entry carrying its row
\* number; accepted_count is the number of rows persisted.
C7_ImportPartialSuccess ==
  [][/\ (last'.op = "import_partners" /\ last'.ok)
        => ImportOutcome(read_csv(last'.out.file).rows, last'.out.report,
                         partners, partners', seq.partners,
                         PartnerFails, PartnerStored)
     /\ (last'.op = "import_products" /\ last'.ok)
        => ImportOutcome(read_csv(last'.out.file).rows, last'.out.report,
                         products, products', seq.products,
                         ProductFails, ProductStored)]_vars

\* five partner rows with an empty name in row 3 only: 4 accepted, one error
\* entry, for row 3
C7_Witness ==
  /\ last.op = "import_partners" /\ last.ok
  /\ Len(last.out.file.rows) = 5
  /\ \A i \in 1..5 : (last.out.file.rows[i].name = <<>>) <=> (i = 3)
  /\ last.out.report.added = 4
  /\ Len(last.out.report.errors) = 1
  /\ last.out.report.errors[1].row = 3
  /\ Cardinality(DOMAIN partners) = 4

ColumnsRejected(fields) ==
  /\ last'.out.file.columns # fields
  /\ last'.out.file.columns # <<"id">> \o fields

\* C8: when the file's ordered column list is neither the entity's field list
\* nor that list prefixed with id, the import is rejected once, before any row
\* is validated or persisted: the store is unchanged and there are no per-row
\* errors.
C8_BadColumnsRejectedOnce ==
  [][((last'.op = "import_partners" /\ ColumnsRejected(PartnerFields))
      \/ (last'.op = "import_products" /\ ColumnsRejected(ProductFields)))
     => /\ last'.out.report = Report(TRUE, 0, <<>>)
        /\ UNCHANGED <<partners, products, invoices, items, seq>>]_vars

\* a product file whose id column comes last was rejected while products are
\* stored
C8_Witness ==
  /\ last.op = "import_products"
  /\ last.out.file.columns = ProductFields \o <<"id">>
  /\ last.out.report.rejected
  /\ DOMAIN products # {}

ProductTuples(tbl) ==
  {<<tbl[k].sku, tbl[k].name, tbl[k].description, tbl[k].price, tbl[k].stock>> :
     k \in DOMAIN tbl}

\* C9: exporting every persisted product (with its id column) and importing the
\* export into an empty product table accepts every row and yields the same set
\* of (sku, name, description, price, stock) tuples.
C9_ExportImportRoundTrip ==
  last.op = "round_trip"
  => /\ last.out.report.added = Cardinality(DOMAIN products)
     /\ last.out.report.errors = <<>>
     /\ ProductTuples(fresh) = ProductTuples(products)

HasEmailShape(e) ==
  \E i \in DOMAIN e : \E j \in DOMAIN e :
    e[i] = "@" /\ e[j] = "." /\ 1 < i /\ i + 1 < j /\ j < Len(e)

OthersFilled(row) ==
  \A f \in {"name", "tax_id", "phone", "address"} : Strip(Get(row, f)) # <<>>

\* C10: a partner field map whose email is empty or missing and whose name,
\* tax_id, phone and address are non-empty validates with an empty error list;
\* a non-empty email is accepted only when it has the shape
\* <nonempty>@<nonempty>.<nonempty>.
C10_EmailOptional ==
  last.op = "validate_partner"
  => LET row == last.out.row
         email == Strip(Get(row, "email"))
     IN /\ (email = <<>> /\ OthersFilled(row)) => last.out.errors = <<>>
        /\ (email # <<>> /\ last.out.errors = <<>>) => HasEmailShape(email)

\* the form carries no due date, names an existing partner, a date that parses
\* and a status
NoDueDateForm(f) ==
  /\ f.due_date = <<>>
  /\ is_int(f.partner) /\ IntVal(f.partner) \in DOMAIN partners
  /\ StrptimeYmd(f.invoice_date)
  /\ f.status # <<>>

\* C11: create_invoice and update_invoice with an empty due_date, an existing
\* partner, a valid ISO invoice_date and a non-empty status pass validation and
\* persist the invoice with due_date unset.
C11_DueDateOptional ==
  [][/\ \A f \in InvoiceForms :
          (/\ NoDueDateForm(f)
           /\ AddInvoiceBody(f.partner, f.invoice_date, f.due_date, f.status))
          => /\ last'.ok
             /\ last'.id \in (DOMAIN invoices') \ (DOMAIN invoices)
             /\ invoices'[last'.id].due_date = NullText
     /\ \A inv_id \in DOMAIN invoices : \A f \in InvoiceForms :
          (/\ NoDueDateForm(f)
           /\ UpdateInvoiceBody(inv_id, f.partner, f.invoice_date, f.due_date, f.status))
          => /\ last'.ok
             /\ invoices'[inv_id].due_date = NullText]_vars

AmountsInRange ==
  /\ \A k \in DOMAIN items : items[k].quantity > 0
  /\ \A k \in DOMAIN products : products[k].price >= 0 /\ products[k].stock >= 0

\* the product fields carry a negative price or a negative stock
NegativeAmount(row) ==
  \/ is_float(row.price) /\ FloatVal(row.price) < 0
  \/ is_int(row.stock) /\ IntVal(row.stock) < 0

StoreUnchanged == UNCHANGED <<partners, products, invoices, items, seq>>

OutOfRangeRefused ==
  /\ \A inv_id \in 1..seq.invoices : \A f \in ItemForms :
       (/\ last'.op = "add_item"
        /\ is_int(f.qty) /\ IntVal(f.qty) <= 0
        /\ AddItemBody(inv_id, f.product, f.qty, f.unit, 0))
       => (~last'.ok /\ StoreUnchanged)
  /\ \A form \in ProductForms :
       (/\ last'.op = "add_product"
        /\ NegativeAmount(form)
        /\ AddProductBody(form))
       => (~last'.ok /\ StoreUnchanged)
  /\ \A pid \in 1..seq.products : \A form \in ProductForms :
       (/\ last'.op = "update_product"
        /\ NegativeAmount(form)
        /\ UpdateProductBody(pid, form))
       => /\ StoreUnchanged
          /\ pid \in DOMAIN products => ~last'.ok
  /\ (last'.op = "import_products" /\ last'.ok)
     => LET rows == read_csv(last'.out.file).rows
            rep == last'.out.report
            bad == {i \in DOMAIN rows : NegativeAmount(rows[i])}
        IN /\ \A i \in bad : \E e \in DOMAIN rep.errors : rep.errors[e].row = i
           /\ rep.added <= Len(rows) - Cardinality(bad)
           /\ Cardinality((DOMAIN products') \ (DOMAIN products)) = rep.added

\* C12: every persisted invoice item has quantity > 0 and every persisted
\* product has price >= 0 and stock >= 0; an add, update, import row or add_item
\* carrying a zero or negative quantity, a negative price or a negative stock
\* persists nothing.
C12_AmountsInRange == []AmountsInRange /\ [][OutOfRangeRefused]_vars

\* an import whose file holds a row with stock -1 reported that row as refused by
\* the store, while a product and an item are stored
C12_Witness ==
  /\ last.op = "import_products" /\ last.ok
  /\ \E i \in DOMAIN last.out.file.rows :
       /\ last.out.file.rows[i].stock = <<"-", "1">>
       /\ \E e \in DOMAIN last.out.report.errors :
            /\ last.out.report.errors[e].row = i
            /\ last.out.report.errors[e].kind = "DB"
  /\ DOMAIN products # {}
  /\ DOMAIN items # {}

ItemsReferToRows ==
  \A k \in DOMAIN items :
    items[k].invoice_id \in DOMAIN invoices /\ items[k].product_id \in DOMAIN products

DanglingWritesRefused ==
  /\ \A inv_id \in 1..seq.invoices : \A f \in ItemForms :
       (/\ last'.op = "add_item"
        /\ is_int(f.product) /\ is_int(f.qty)
        /\ inv_id \notin DOMAIN invoices \/ IntVal(f.product) \notin DOMAIN products
        /\ AddItemBody(inv_id, f.product, f.qty, f.unit, 0))
       => (~last'.ok /\ items' = items)
  /\ \A pid \in DOMAIN products :
       (/\ last'.op = "delete_product"
        /\ last'.id = pid
        /\ \E k \in DOMAIN items : items[k].product_id = pid)
       => \/ products' = products /\ items' = items
          \/ /\ pid \notin DOMAIN products'
             /\ \A k \in DOMAIN items' : items'[k].product_id # pid

\* C13: each invoice item's invoice_id names an existing invoice and its
\* product_id an existing product, in every state; add_item naming a nonexistent
\* invoice or product persists no item, and delete_product on a product that an
\* item references either changes nothing or removes those items too.
C13_ItemsReferToRows == []ItemsReferToRows /\ [][DanglingWritesRefused]_vars

\* delete_product was refused on a product that an item references
C13_Witness ==
  /\ last.op = "delete_product" /\ ~last.ok
  /\ last.id \in DOMAIN products
  /\ \E k \in DOMAIN items : items[k].product_id = last.id

\* C14: create_invoice with a partner_id that matches no existing partner fails
\* and leaves the invoice table unchanged; a create_invoice that succeeds inserts
\* exactly one invoice, referencing an existing partner, with total_amount = 0
\* and no items.
C14_CreateInvoice ==
  [][\A f \in InvoiceForms :
       (/\ last'.op = "add_invoice"
        /\ AddInvoiceBody(f.partner, f.invoice_date, f.due_date, f.status))
       => /\ (~is_int(f.partner) \/ IntVal(f.partner) \notin DOMAIN partners)
             => (~last'.ok /\ invoices' = invoices)
          /\ last'.ok
             => /\ last'.id \notin DOMAIN invoices
                /\ DOMAIN invoices' = (DOMAIN invoices) \cup {last'.id}
                /\ \A i \in DOMAIN invoices : invoices'[i] = invoices[i]
                /\ invoices'[last'.id].partner_id = IntVal(f.partner)
                /\ invoices'[last'.id].partner_id \in DOMAIN partners'
                /\ invoices'[last'.id].total_amount = 0
                /\ \A k \in DOMAIN items' : items'[k].invoice_id # last'.id
                /\ items' = items]_vars

\* a second invoice was just created, with total 0 and no items, while the first
\* invoice holds an item
C14_Witness ==
  /\ last.op = "add_invoice" /\ last.ok /\ last.id = 2
  /\ invoices[2].total_amount = 0
  /\ 1 \in DOMAIN invoices
  /\ \E k \in DOMAIN items : items[k].invoice_id = 1
  /\ \A k \in DOMAIN items : items[k].invoice_id # 2

\* row i of the file has an empty stock cell, its other fields are valid and its
\* sku is used by no other row of the file and by no stored product
EmptyStockRow(rows, i) ==
  LET row == DropId(rows[i]) IN
  /\ row.stock = <<>>
  /\ validate_product_row([row EXCEPT !.stock = <<"0">>]) = <<>>
  /\ FloatVal(row.price) >= 0
  /\ \A j \in (DOMAIN rows) \ {i} : rows[j].sku # row.sku
  /\ \A k \in DOMAIN products : products[k].sku # row.sku

\* C15: on product import, a row whose stock cell is empty and whose other
\* fields are valid is accepted and persisted with stock = 0.
C15_StockDefaultsToZero ==
  [][(last'.op = "import_products" /\ last'.ok)
     => LET rows == read_csv(last'.out.file).rows
            rep == last'.out.report
        IN \A i \in DOMAIN rows :
             EmptyStockRow(rows, i)
             => /\ \A e \in DOMAIN rep.errors : rep.errors[e].row # i
                /\ \E k \in (DOMAIN products') \ (DOMAIN products) :
                     /\ products'[k].sku = rows[i].sku
                     /\ products'[k].stock = 0]_vars

TableNames == {"partners", "products", "invoices", "items"}

TableOf(t) ==
  CASE t = "partners" -> partners
    [] t = "products" -> products
    [] t = "invoices" -> invoices
    [] t = "items" -> items

\* every id present was assigned: it is at most the table's counter
IdsWithinSequence == \A t \in TableNames : DOMAIN TableOf(t) \subseteq 1..seq[t]

\* the counter never goes back, and a new row's id is above the counter, that
\* is above every id the table has assigned so far, deleted rows included
IdsIncrease ==
  \A t \in TableNames :
    /\ seq'[t] >= seq[t]
    /\ \A k \in (DOMAIN TableOf(t)') \ (DOMAIN TableOf(t)) : k > seq[t] /\ k <= seq'[t]

\* the rows an import stores get the next ids of the table, whatever the file's
\* id column holds
ImportIgnoresIdColumn ==
  /\ (last'.op = "import_partners" /\ last'.ok)
     => (DOMAIN partners') \ (DOMAIN partners)
          = (seq.partners + 1)..(seq.partners + last'.out.report.added)
  /\ (last'.op = "import_products" /\ last'.ok)
     => (DOMAIN products') \ (DOMAIN products)
          = (seq.products + 1)..(seq.products + last'.out.report.added)

\* C16: ids are assigned by the store, strictly increasing per table and never
\* reused: each newly inserted row's id is greater than every id ever assigned
\* in its table, ids of deleted rows included, and an id column in an import
\* file never determines the id of the stored row.
C16_IdsNeverReused ==
  []IdsWithinSequence /\ [][IdsIncrease /\ ImportIgnoresIdColumn]_vars

\* after partner 1 was deleted, the import of a file with an id column (holding
\* 7) stored its row as partner 2
C16_Witness ==
  /\ last.op = "import_partners" /\ last.ok
  /\ last.out.file.columns[1] = "id"
  /\ Len(last.out.file.rows) = 1
  /\ last.out.file.rows[1].id = T_id
  /\ last.out.report.added = 1
  /\ DOMAIN partners = {2}

\* local@domain.tld: one @, text before it, and after it a point with text on
\* both sides
MailShape(e) ==
  /\ Cardinality({i \in DOMAIN e : e[i] = "@"}) = 1
  /\ \E i \in DOMAIN e : \E j \in DOMAIN e :
       e[i] = "@" /\ e[j] = "." /\ 1 < i /\ i + 1 < j /\ j < Len(e)

ErrorsAbout(errors, f) == {k \in DOMAIN errors : errors[k].field = f}

\* C17: partner validation reports every violated field, never just the first:
\* the result holds exactly one error for each field that is empty after
\* trimming, one for a non-empty malformed email, and none for any other field.
C17_EveryViolationReported ==
  last.op = "validate_partner"
  => LET row == last.out.row
         errors == last.out.errors
     IN /\ \A k \in DOMAIN errors : errors[k].field \in Range(PartnerFields)
        /\ \A f \in Range(PartnerFields) :
             LET value == Strip(Get(row, f))
                 about == ErrorsAbout(errors, f)
             IN IF value = <<>>
                THEN Cardinality(about) = 1
                     /\ \A k \in about : errors[k].kind = "required"
                ELSE IF f = "email" /\ ~MailShape(value)
                THEN Cardinality(about) = 1
                     /\ \A k \in about : errors[k].kind = "format"
                ELSE about = {}

\* an empty name and the email "bad" with the other three fields filled gave
\* exactly two errors: name missing, email format invalid
C17_Witness ==
  /\ last.op = "validate_partner"
  /\ Strip(Get(last.out.row, "name")) = <<>>
  /\ Get(last.out.row, "email") = T_bad
  /\ Get(last.out.row, "tax_id") # <<>> /\ Get(last.out.row, "address") # <<>>
  /\ last.out.errors = <<Required("name"), Invalid("email")>>

\* the declared fields of the entity whose validator ran
DeclaredFields ==
  CASE last.op = "validate_partner" -> PartnerFields
    [] last.op = "validate_product" -> ProductFields
    [] last.op = "validate_invoice" -> InvoiceFields
    [] last.op = "validate_item" -> ItemRequiredFields

Position(fields, f) == CHOOSE i \in DOMAIN fields : fields[i] = f

\* C18: for every entity validator the error list is ordered by field
\* declaration order (every error about a field declared earlier precedes every
\* error about a field declared later), and a single field never gets both a
\* required and a format error.
C18_ErrorsInDeclarationOrder ==
  last.op \in {"validate_partner", "validate_product", "validate_invoice", "validate_item"}
  => LET errors == last.out.errors
         fields == DeclaredFields
     IN /\ \A i \in DOMAIN errors : \A j \in DOMAIN errors :
             i < j => Position(fields, errors[i].field) <= Position(fields, errors[j].field)
        /\ \A f \in Range(fields) : Cardinality(ErrorsAbout(errors, f)) <= 1

\* C19: an item's unit_price and line_total are fixed when it is written:
\* updating a product (its price included) leaves the unit_price and line_total
\* of every existing invoice item and the total_amount of every invoice
\* unchanged.
C19_ProductUpdateKeepsItems ==
  [][last'.op = "update_product"
     => /\ DOMAIN items' = DOMAIN items
        /\ \A k \in DOMAIN items :
             /\ items'[k].unit_price = items[k].unit_price
             /\ items'[k].line_total = items[k].line_total
        /\ DOMAIN invoices' = DOMAIN invoices
        /\ \A i \in DOMAIN invoices :
             invoices'[i].total_amount = invoices[i].total_amount]_vars

\* the product's price was just updated to 0.5 while an item written at its
\* earlier price 2.0 keeps unit_price 2.0 and line_total 4.0
C19_Witness ==
  /\ last.op = "update_product" /\ last.ok
  /\ last.id \in DOMAIN products
  /\ products[last.id].price = 5
  /\ \E k \in DOMAIN items :
       /\ items[k].product_id = last.id
       /\ items[k].unit_price = 20
       /\ items[k].line_total = 40
       /\ invoices[items[k].invoice_id].total_amount >= 40

====
